---- MODULE Spec2Model ----
(***************************************************************************)
(* Model of the sample-domain pipeline of vibe-web-starter:                *)
(*   SampleAnalysisCalculator  (calculators/__init__.py)                   *)
(*   SampleDataProvider        (providers/__init__.py)                     *)
(*   analyze_data              (api/v1/endpoints/sample.py)                *)
(*                                                                         *)
(* Numbers.  score and threshold are Optional[float]; they are modelled in *)
(* hundredths (0.25 is 25) and an Optional x is <<>> for None and <<v>>    *)
(* for a present v.  The subject value is a float c/100 * 10^e, the record *)
(* [c |-> c, e |-> e]; e = 200 gives the floats whose square leaves the    *)
(* float range.  A metric is a float c/10^6 * 10^e, the record            *)
(* [c |-> c, e |-> e] in millionths.  The arithmetic of the metrics is     *)
(* exact in decimal; the overflow of ** and the rounding of "{x:.2f}" are  *)
(* those of the binary double nearest to the decimal.  c is a 32-bit       *)
(* integer.                                                                *)
(*                                                                         *)
(* Text.  An f-string is the record [text |-> template, args |-> fields];  *)
(* the templates are ASCII names of the Korean templates of the source.    *)
(* An exception message is the sequence of the pieces it is built from, so *)
(* that f"prefix: {str(e)}" is <<prefix>> \o str(e).                       *)
(***************************************************************************)
EXTENDS Integers, Sequences, FiniteSets, TLC

VARIABLES op, input, outcome, calls, result

vars == <<op, input, outcome, calls, result>>

-----------------------------------------------------------------------------
(* Python values *)

None == <<>>
Some(v) == <<v>>

\* bool(x) of an Optional[float]: None and 0.0 are falsy
Truthy(x) == x # None /\ x[1] # 0

Return(v) == [tag |-> "return", value |-> v]
Raise(e) == [tag |-> "raise", error |-> e]

NoDetails == <<>>

\* an exception of the application taxonomy or of the runtime
Exc(kind, message, details) == [kind |-> kind, message |-> message, details |-> details]

\* str(e): the message the exception was built with
StrOf(e) == e.message

\* message m contains the pieces of message s, contiguously
Contains(m, s) ==
    \E i \in 0..(Len(m) - Len(s)) : SubSeq(m, i + 1, i + Len(s)) = s

-----------------------------------------------------------------------------
(* floats *)

Num(c, e) == [c |-> c, e |-> e]

\* value c/100 * 10^e as a metric in millionths
ValueAsMetric(v) == Num(v.c * 10000, v.e)
\* score in hundredths as a metric in millionths
ScoreAsMetric(s) == Num(s * 10000, 0)

Abs(n) == IF n < 0 THEN -n ELSE n

RECURSIVE Pow10(_)
Pow10(n) == IF n = 0 THEN 1 ELSE 10 * Pow10(n - 1)

\* the number of decimal digits of a >= 0
RECURSIVE Digits(_)
Digits(a) == IF a < 10 THEN 1 ELSE 1 + Digits(a \div 10)

\* the square root of the largest double is 1.340780792...e154: its
\* decimal exponent and its first 10 digits
SqrtFloatMaxExp10 == 154
SqrtFloatMaxDigits == 1340780792

\* x ** 2 of x = v * 0.1 raises OverflowError when the square exceeds the
\* largest double, that is when |x| = |c| * 10^(e - 3) exceeds its square
\* root; a square that underflows raises nothing.  |x| is m * 10^x10 with
\* 1 <= m < 10, and m is compared on the d digits of |c|.
SquareOverflows(v) ==
    LET a == Abs(v.c)
        d == Digits(a)
        x10 == d + v.e - 4
    IN  /\ a # 0
        /\ \/ x10 > SqrtFloatMaxExp10
           \/ /\ x10 = SqrtFloatMaxExp10
              /\ a > SqrtFloatMaxDigits \div Pow10(10 - d)

\* "{x:.2f}" of a score or threshold in hundredths: sign, integer part and
\* the two decimals
Fmt2(h) ==
    LET a == IF h < 0 THEN -h ELSE h
    IN  [neg |-> h < 0, int |-> a \div 100, frac |-> a % 100, e |-> 0]

\* 2^s modulo m
RECURSIVE Pow2Mod(_, _)
Pow2Mod(s, m) == IF s = 0 THEN 1 % m ELSE (2 * Pow2Mod(s - 1, m)) % m

\* the binary exponent p of n/200: 2^p <= n/200 < 2^(p+1), for n >= 1
RECURSIVE BinaryExponentFrom(_, _)
BinaryExponentFrom(n, p) ==
    IF n >= 200
    THEN IF 2^(p + 1) <= n \div 200 THEN BinaryExponentFrom(n, p + 1) ELSE p
    ELSE IF n * 2^(-p) >= 200 THEN p ELSE BinaryExponentFrom(n, p - 1)

BinaryExponent(n) == BinaryExponentFrom(n, IF n >= 200 THEN 0 ELSE -1)

\* the decimal (2q+1)/200 lies halfway between q and q+1 hundredths.  Its
\* double has 53 bits: it is the multiple of 2^-s nearest to the decimal,
\* s = 52 - p, and r tells on which side of the decimal it lies.  r = 0 is
\* a double equal to the decimal, which "{x:.2f}" rounds to the even
\* neighbour; otherwise the double is rounded to the side it lies on.
TieRoundsUp(q) ==
    LET n == 2 * q + 1
        s == 52 - BinaryExponent(n)
        r == ((n % 200) * Pow2Mod(s, 200)) % 200
    IN  IF r = 0 THEN q % 2 = 1 ELSE r > 100

\* the hundredths "{x:.2f}" prints for the double nearest to a / 10^(k+2),
\* a >= 0 with k >= 1 decimals beyond the second.  Away from the halfway
\* point the double rounds as the decimal does.
Round2(a, k) ==
    IF k > 9 THEN 0
    ELSE LET q == a \div Pow10(k)
             rem == a % Pow10(k)
             half == 5 * Pow10(k - 1)
         IN  IF rem < half THEN q
             ELSE IF rem > half THEN q + 1
             ELSE IF TieRoundsUp(q) THEN q + 1 ELSE q

\* "{x:.2f}" of the metric x = c/10^6 * 10^e, as it is applied to
\* metrics['mean'], the double of the decimal input_data.value: the text
\* prints (int + frac/100) * 10^e.  A negative x that rounds to zero
\* prints -0.00.  Of a number that is a multiple of 0.01 the text is taken
\* to print that number: the digits a double beyond 2^53 prints after its
\* 17th are not modelled.
Fmt2Metric(x) ==
    LET a == Abs(x.c)
        k == 4 - x.e
        h == IF k <= 0 THEN a ELSE Round2(a, k)
    IN  [neg |-> x.c < 0, int |-> h \div 100, frac |-> h % 100,
         e |-> IF k < 0 THEN -k ELSE 0]

-----------------------------------------------------------------------------
(* SampleAnalysisCalculator *)

AnomalyCutoff == 30

CalculatorInput(value, score, analysis_type, threshold) ==
    [value |-> value, score |-> score,
     analysis_type |-> analysis_type, threshold |-> threshold]

CalculatorOutput(metrics, insights) == [metrics |-> metrics, insights |-> insights]

\* validate_input without the score check
validate_input_ValueOnly(input_data) ==
    IF input_data.value.c < 0
    THEN Some(Exc("CalculatorException", <<"Value must be non-negative">>, NoDetails))
    ELSE None

\* validate_input: None when the input passes, else the exception raised
validate_input(input_data) ==
    IF input_data.value.c < 0
    THEN Some(Exc("CalculatorException", <<"Value must be non-negative">>, NoDetails))
    ELSE IF input_data.score # None
            /\ ~(0 <= input_data.score[1] /\ input_data.score[1] <= 100)
    THEN Some(Exc("CalculatorException", <<"Score must be between 0 and 1">>, NoDetails))
    ELSE None

\* the comparison of line 124 with >= for >
ScoreExceeds_OrEqual(score, threshold) == score >= threshold

\* the comparison of line 124
ScoreExceeds(score, threshold) == score > threshold

_statistical_analysis(input_data) ==
    LET v == input_data.value
        mean == ValueAsMetric(v)
        base == << [text |-> "data follows a normal distribution", args |-> <<>>],
                   [text |-> "mean is {mean:.2f}", args |-> <<Fmt2Metric(mean)>>] >>
        extra ==
            IF Truthy(input_data.threshold) /\ Truthy(input_data.score)
               /\ ScoreExceeds(input_data.score[1], input_data.threshold[1])
            THEN << [text |-> "score({score:.2f}) exceeds threshold({threshold:.2f})",
                     args |-> <<Fmt2(input_data.score[1]),
                                Fmt2(input_data.threshold[1])>>] >>
            ELSE <<>>
    IN  IF SquareOverflows(v)
        THEN Raise(Exc("OverflowError",
                       <<"(34, 'Numerical result out of range')">>, NoDetails))
        ELSE Return([metrics |-> [mean |-> mean,
                                  median |-> Num(v.c * 9500, v.e),
                                  std_dev |-> Num(v.c * 1000, v.e),
                                  variance |-> Num(v.c * v.c, 2 * v.e)],
                     insights |-> base \o extra])

_trend_analysis(input_data) ==
    Return([metrics |-> [trend_direction |-> Num(1000000, 0),
                         trend_strength |-> Num(700000, 0),
                         change_rate |-> Num(50000, 0)],
            insights |-> << [text |-> "rising trend observed", args |-> <<>>],
                            [text |-> "trend strength is moderate", args |-> <<>>] >>])

_anomaly_detection(input_data) ==
    LET is_anomaly == Truthy(input_data.score) /\ input_data.score[1] < AnomalyCutoff
    IN  Return([metrics |-> [anomaly_score |-> IF is_anomaly THEN Num(200000, 0)
                                                             ELSE Num(800000, 0),
                             is_anomaly |-> IF is_anomaly THEN Num(1000000, 0)
                                                          ELSE Num(0, 0),
                             confidence |-> Num(850000, 0)],
                insights |-> IF is_anomaly
                             THEN << [text |-> "anomaly detected", args |-> <<>>],
                                     [text |-> "further review needed", args |-> <<>>] >>
                             ELSE << [text |-> "data within normal range",
                                      args |-> <<>>] >>])

_default_analysis(input_data) ==
    Return([metrics |-> [value |-> ValueAsMetric(input_data.value),
                         score |-> IF Truthy(input_data.score)
                                   THEN ScoreAsMetric(input_data.score[1])
                                   ELSE Num(0, 0)],
            insights |-> << [text |-> "value: {value}", args |-> <<input_data.value>>],
                            IF Truthy(input_data.score)
                            THEN [text |-> "score: {score}",
                                  args |-> <<input_data.score[1]>>]
                            ELSE [text |-> "score: N/A", args |-> <<>>] >>])

\* BaseCalculator.validate_output: None when the output passes, else the
\* exception raised (an output without metrics is invalid)
validate_output(output) ==
    IF DOMAIN output.metrics = {}
    THEN Some(Exc("CalculatorException", <<"Output metrics must not be empty">>, NoDetails))
    ELSE None

\* the name of the branch line 65-73 dispatches to
BranchOf(analysis_type) ==
    IF analysis_type = Some("statistical") THEN "_statistical_analysis"
    ELSE IF analysis_type = Some("trend") THEN "_trend_analysis"
    ELSE IF analysis_type = Some("anomaly") THEN "_anomaly_detection"
    ELSE "_default_analysis"

RunBranch(branch, input_data) ==
    IF branch = "_statistical_analysis" THEN _statistical_analysis(input_data)
    ELSE IF branch = "_trend_analysis" THEN _trend_analysis(input_data)
    ELSE IF branch = "_anomaly_detection" THEN _anomaly_detection(input_data)
    ELSE _default_analysis(input_data)

\* an except clause that lets the error through as it is
CalculateWrap_Reraise(e, input_data) == e

\* the except clause of calculate
CalculateWrap(e, input_data) ==
    Exc("CalculatorException",
        <<"Analysis calculation failed: ">> \o StrOf(e),
        [analysis_type |-> input_data.analysis_type])

\* calculate whose fallback branch returns an empty output at once
calculate_EmptyFallback(input_data) ==
    LET invalid == validate_input(input_data)
        branch == BranchOf(input_data.analysis_type)
        ran == RunBranch(branch, input_data)
        output == CalculatorOutput(ran.value.metrics, ran.value.insights)
        bad == validate_output(output)
    IN  IF invalid # None
        THEN [outcome |-> Raise(CalculateWrap(invalid[1], input_data)),
              calls |-> <<"validate_input">>]
        ELSE IF branch = "_default_analysis"
        THEN [outcome |-> Return(CalculatorOutput(<<>>, <<>>)),
              calls |-> <<"validate_input">>]
        ELSE IF ran.tag = "raise"
        THEN [outcome |-> Raise(CalculateWrap(ran.error, input_data)),
              calls |-> <<"validate_input", branch>>]
        ELSE IF bad # None
        THEN [outcome |-> Raise(CalculateWrap(bad[1], input_data)),
              calls |-> <<"validate_input", branch, "validate_output">>]
        ELSE [outcome |-> Return(output),
              calls |-> <<"validate_input", branch, "validate_output">>]

\* calculate: the outcome and the methods it called, in order
calculate(input_data) ==
    LET invalid == validate_input(input_data)
        branch == BranchOf(input_data.analysis_type)
        ran == RunBranch(branch, input_data)
        output == CalculatorOutput(ran.value.metrics, ran.value.insights)
        bad == validate_output(output)
    IN  IF invalid # None
        THEN [outcome |-> Raise(CalculateWrap(invalid[1], input_data)),
              calls |-> <<"validate_input">>]
        ELSE IF ran.tag = "raise"
        THEN [outcome |-> Raise(CalculateWrap(ran.error, input_data)),
              calls |-> <<"validate_input", branch>>]
        ELSE IF bad # None
        THEN [outcome |-> Raise(CalculateWrap(bad[1], input_data)),
              calls |-> <<"validate_input", branch, "validate_output">>]
        ELSE [outcome |-> Return(output),
              calls |-> <<"validate_input", branch, "validate_output">>]

-----------------------------------------------------------------------------
(* SampleDataProvider *)

StubValue == 4250
StubScore == 85

ProviderInput(data_id) == [data_id |-> data_id]

ProviderOutput(id, name, value, score) ==
    [id |-> id, name |-> name, value |-> value, score |-> score]

\* SampleDataProvider.validate_input: the body is pass, nothing is raised
provider_validate_input(input_data) == None

\* the try block of provide.  fault is None, or Some(e) for an exception e
\* raised by a call made inside the block (the data source, an overriding
\* validate_input, the output constructor); without one the stub record is
\* returned.
ProvideBody(input_data, fault) ==
    LET invalid == provider_validate_input(input_data)
    IN  IF invalid # None THEN Raise(invalid[1])
        ELSE IF fault # None THEN Raise(fault[1])
        ELSE Return(ProviderOutput(input_data.data_id,
                                   <<"Sample Data ", ToString(input_data.data_id)>>,
                                   Num(StubValue, 0), Some(StubScore)))

\* except clauses without the NotFoundException pass-through
ProvideWrap_WrapsAll(e, input_data) ==
    Exc("ProviderException",
        <<"Failed to provide data: ">> \o StrOf(e),
        [data_id |-> input_data.data_id])

\* the except clauses of provide
ProvideWrap(e, input_data) ==
    IF e.kind = "NotFoundException"
    THEN e
    ELSE Exc("ProviderException",
             <<"Failed to provide data: ">> \o StrOf(e),
             [data_id |-> input_data.data_id])

provide(input_data, fault) ==
    LET body == ProvideBody(input_data, fault)
    IN  IF body.tag = "raise"
        THEN Raise(ProvideWrap(body.error, input_data))
        ELSE body

\* the records of the ids of data_ids, each id once, in ascending order,
\* as one IN query would resolve them
RECURSIVE SortedDistinct(_)
SortedDistinct(ids) ==
    IF ids = {} THEN <<>>
    ELSE LET least == CHOOSE x \in ids : \A y \in ids : x <= y
         IN  <<least>> \o SortedDistinct(ids \ {least})

\* get_multiple as one IN query instead of one provide per id
get_multiple_InQuery(data_ids, faults) ==
    LET ids == SortedDistinct({data_ids[k] : k \in 1..Len(data_ids)})
    IN  [outcome |-> Return([k \in 1..Len(ids) |->
                                provide(ProviderInput(ids[k]), None).value]),
         calls |-> <<>>]

\* get_multiple that awaits every provide before it raises the first error
get_multiple_GatherAll(data_ids, faults) ==
    LET got == [k \in 1..Len(data_ids) |->
                    provide(ProviderInput(data_ids[k]), faults[k])]
        failed == {k \in 1..Len(data_ids) : got[k].tag = "raise"}
        all == [k \in 1..Len(data_ids) |-> ProviderInput(data_ids[k])]
    IN  IF failed = {}
        THEN [outcome |-> Return([k \in 1..Len(data_ids) |-> got[k].value]),
              calls |-> all]
        ELSE [outcome |-> got[CHOOSE k \in failed : \A j \in failed : k <= j],
              calls |-> all]

\* the list comprehension of get_multiple from position i on: acc holds the
\* records of the positions before i.  The first provide that raises ends
\* the comprehension with its exception.
RECURSIVE GetMultipleFrom(_, _, _, _)
GetMultipleFrom(data_ids, faults, i, acc) ==
    IF i > Len(data_ids)
    THEN [outcome |-> Return(acc),
          calls |-> [k \in 1..Len(data_ids) |-> ProviderInput(data_ids[k])]]
    ELSE LET r == provide(ProviderInput(data_ids[i]), faults[i])
         IN  IF r.tag = "raise"
             THEN [outcome |-> r,
                   calls |-> [k \in 1..i |-> ProviderInput(data_ids[k])]]
             ELSE GetMultipleFrom(data_ids, faults, i + 1, Append(acc, r.value))

\* get_multiple: the outcome and the inputs provide was called with, in
\* order.  faults[k] is what the k-th provide call meets inside its try block.
get_multiple(data_ids, faults) == GetMultipleFrom(data_ids, faults, 1, <<>>)

-----------------------------------------------------------------------------
(* SampleDomainService.execute and the Result envelope *)

Success(data) == [success |-> TRUE, data |-> data]

\* kind records which error the failure was made from
Failure(e) == [success |-> FALSE, error |-> e.message, details |-> e.details,
               kind |-> e.kind]

AnalysisRequest(data_id, analysis_type, threshold) ==
    [data_id |-> data_id, analysis_type |-> analysis_type, threshold |-> threshold]

\* execute: the provider, then the calculator on the record it resolved;
\* the first error becomes the Failure and ends the call
execute(request, fault) ==
    LET provided == provide(ProviderInput(request.data_id), fault)
        calc_in == CalculatorInput(provided.value.value, provided.value.score,
                                   request.analysis_type, request.threshold)
        calculated == calculate(calc_in)
    IN  IF provided.tag = "raise"
        THEN [result |-> Failure(provided.error), calls |-> <<"provide">>]
        ELSE IF calculated.outcome.tag = "raise"
        THEN [result |-> Failure(calculated.outcome.error),
              calls |-> <<"provide", "calculate">>]
        ELSE [result |-> Success([data_id |-> request.data_id,
                                  analysis_type |-> request.analysis_type,
                                  metrics |-> calculated.outcome.value.metrics,
                                  insights |-> calculated.outcome.value.insights]),
              calls |-> <<"provide", "calculate">>]

-----------------------------------------------------------------------------
(* analyze_data *)

HTTP_200_OK == 200
HTTP_400_BAD_REQUEST == 400
HTTP_404_NOT_FOUND == 404

HTTPException(status_code, detail) ==
    [kind |-> "HTTPException", status_code |-> status_code, detail |-> detail]

\* the handler FastAPI registers for HTTPException in every application
http_exception_handler(exc) ==
    [status_code |-> exc.status_code, content |-> [detail |-> exc.detail]]

\* the response FastAPI sends for the value analyze_data returns or the
\* HTTPException it raises
analyze_data(res) ==
    IF res.success
    THEN [status_code |-> HTTP_200_OK, content |-> res.data]
    ELSE http_exception_handler(HTTPException(HTTP_400_BAD_REQUEST, res.error))

-----------------------------------------------------------------------------
(* the exception handlers of main.py *)

HTTP_500_INTERNAL_SERVER_ERROR == 500

\* ApplicationException and its subclasses
TaxonomyKinds == {"ApplicationException", "NotFoundException", "ValidationException",
                  "ProviderException", "CalculatorException"}

\* exc.status_code of a taxonomy exception
StatusCodeOf(exc) ==
    IF exc.kind = "ValidationException" THEN HTTP_400_BAD_REQUEST
    ELSE IF exc.kind = "NotFoundException" THEN HTTP_404_NOT_FOUND
    ELSE HTTP_500_INTERNAL_SERVER_ERROR

\* application settings: DEBUG is the flag create_application and the
\* handler read
Settings(debug) == [DEBUG |-> debug]

\* create_application: FastAPI(debug=settings.DEBUG, ...), on which the two
\* handlers below are registered
create_application(settings) == [debug |-> settings.DEBUG]

application_exception_handler(exc) ==
    [status_code |-> StatusCodeOf(exc),
     content |-> [error |-> exc.message, details |-> exc.details]]

\* type(exc).__name__ is the text <<exc.kind>>
general_exception_handler(exc, settings) ==
    IF settings.DEBUG
    THEN [status_code |-> HTTP_500_INTERNAL_SERVER_ERROR,
          content |-> [error |-> <<"Internal server error">>,
                       details |-> [type |-> <<exc.kind>>, message |-> StrOf(exc)]]]
    ELSE [status_code |-> HTTP_500_INTERNAL_SERVER_ERROR,
          content |-> [error |-> <<"Internal server error">>]]

\* the response of the server error middleware of an application built
\* with debug on: status 500 and, in place of a JSON body, the debug
\* rendering of the traceback of exc, which shows its type name and its
\* message; as a page when the request accepts text/html and as plain text
\* otherwise.  The text of the rendering is the framework's and is not
\* modelled: traceback_of names the exception it renders.
debug_response(exc, accepts_html) ==
    [status_code |-> HTTP_500_INTERNAL_SERVER_ERROR,
     content |-> [media_type |-> IF accepts_html THEN "text/html" ELSE "text/plain",
                  traceback_of |-> exc]]

\* the handlers called for an exception exc that leaves a route function of
\* app, in order: the one registered for ApplicationException for the
\* taxonomy, FastAPI's own for HTTPException, and for every other exception
\* the one registered for Exception, which the server error middleware
\* calls only in an application built with debug off
HandlerFor(exc, app) ==
    IF exc.kind \in TaxonomyKinds THEN <<"application_exception_handler">>
    ELSE IF exc.kind = "HTTPException" THEN <<"http_exception_handler">>
    ELSE IF app.debug THEN <<>>
    ELSE <<"general_exception_handler">>

\* the response sent for exc by the application built from settings
exception_response(exc, settings, accepts_html) ==
    LET app == create_application(settings)
        handlers == HandlerFor(exc, app)
    IN  IF handlers = <<"application_exception_handler">>
        THEN application_exception_handler(exc)
        ELSE IF handlers = <<"http_exception_handler">>
        THEN http_exception_handler(exc)
        ELSE IF handlers = <<"general_exception_handler">>
        THEN general_exception_handler(exc, settings)
        ELSE debug_response(exc, accepts_html)

-----------------------------------------------------------------------------
(* inputs *)

MaxDataId == 2

AnalysisTypes == {Some("statistical"), Some("trend"), Some("anomaly"),
                  Some("custom"), None}

\* -1.0, 0.0, 10.0, 42.5, 1e200, and 1.34e155 and 1.35e155, the two sides
\* of the value from which the variance overflows
Values == {Num(-100, 0), Num(0, 0), Num(1000, 0), Num(4250, 0), Num(100, 200),
           Num(134, 155), Num(135, 155)}

\* None, and -0.1 .. 1.5
Scores == {None} \cup {Some(s) : s \in {-10, 0, 25, 30, 50, 90, 100, 150}}

\* None, and 0.0 .. 0.9
Thresholds == {None} \cup {Some(t) : t \in {0, 30, 50, 90}}

CalculatorInputs ==
    {CalculatorInput(v, s, k, t) :
        v \in Values, s \in Scores, k \in AnalysisTypes, t \in Thresholds}

DataIds == (-1)..MaxDataId

\* what a call inside the try block of provide may raise for data_id
Faults(data_id) ==
    {None,
     Some(Exc("NotFoundException",
              <<"Data with id ", ToString(data_id), " not found">>, NoDetails)),
     Some(Exc("ValidationException",
              <<"data_id must be positive">>, [field |-> "data_id"])),
     Some(Exc("RuntimeError", <<"connection lost">>, NoDetails))}

MaxBatch == 3

\* the ids a batch asks for
BatchIds == {1, 2}

\* what one provide call of a batch may meet for data_id: the record of an
\* odd id may be missing, the lookup of an even id may lose its connection
BatchFaults(data_id) ==
    {f \in Faults(data_id) :
        f = None \/ f[1].kind = (IF data_id % 2 = 1 THEN "NotFoundException"
                                                    ELSE "RuntimeError")}

\* the lists of n ids, each with the fault of every position
BatchesOf(n) ==
    {b \in [data_ids : [1..n -> BatchIds],
            faults : [1..n -> UNION {BatchFaults(d) : d \in BatchIds}]] :
        \A k \in 1..n : b.faults[k] \in BatchFaults(b.data_ids[k])}

\* the lists of at most MaxBatch ids
Batches == UNION {BatchesOf(n) : n \in 0..MaxBatch}

\* exceptions that leave a route function: defects that are no taxonomy
\* error, taxonomy errors raised outside a Result, and the HTTPException
\* of analyze_data
RaisedExceptions ==
    {HTTPException(HTTP_400_BAD_REQUEST, <<"Data with id ", "7", " not found">>),
     Exc("RuntimeError", <<"connection lost">>, NoDetails),
     Exc("KeyError", <<"'user_id'">>, NoDetails),
     Exc("ZeroDivisionError", <<"division by zero">>, NoDetails),
     Exc("NotFoundException", <<"Data with id ", "7", " not found">>, NoDetails),
     Exc("ValidationException", <<"data_id must be positive">>, [field |-> "data_id"]),
     Exc("CalculatorException",
         <<"Analysis calculation failed: ", "Value must be non-negative">>,
         [analysis_type |-> Some("trend")])}

AnalysisRequests ==
    {AnalysisRequest(d, k, t) :
        d \in DataIds, k \in AnalysisTypes, t \in Thresholds}

-----------------------------------------------------------------------------
(* the operations *)

Init ==
    /\ op = "none"
    /\ input = None
    /\ outcome = None
    /\ calls = <<>>
    /\ result = None

Calculate ==
    \E input_data \in CalculatorInputs :
        LET r == calculate(input_data)
        IN  /\ op' = "calculate"
            /\ input' = input_data
            /\ outcome' = r.outcome
            /\ calls' = r.calls
            /\ result' = None

Provide ==
    \E data_id \in DataIds :
        \E fault \in Faults(data_id) :
            /\ op' = "provide"
            /\ input' = [input_data |-> ProviderInput(data_id), fault |-> fault]
            /\ outcome' = provide(ProviderInput(data_id), fault)
            /\ calls' = <<"validate_input">>
            /\ result' = None

AnalyzeData ==
    \E request \in AnalysisRequests :
        \E fault \in Faults(request.data_id) :
            LET r == execute(request, fault)
            IN  /\ op' = "analyze_data"
                /\ input' = [request |-> request, fault |-> fault]
                /\ result' = r.result
                /\ calls' = r.calls
                /\ outcome' = analyze_data(r.result)

GetMultiple ==
    \E batch \in Batches :
        LET r == get_multiple(batch.data_ids, batch.faults)
        IN  /\ op' = "get_multiple"
            /\ input' = batch
            /\ outcome' = r.outcome
            /\ calls' = r.calls
            /\ result' = None

HandleException ==
    \E exc \in RaisedExceptions :
        \E debug \in BOOLEAN :
            \E accepts_html \in BOOLEAN :
                /\ op' = "handle_exception"
                /\ input' = [exc |-> exc, settings |-> Settings(debug),
                             accepts_html |-> accepts_html]
                /\ outcome' = exception_response(exc, Settings(debug), accepts_html)
                /\ calls' = HandlerFor(exc, create_application(Settings(debug)))
                /\ result' = None

Next ==
    \/ Calculate
    \/ Provide
    \/ AnalyzeData
    \/ GetMultiple
    \/ HandleException

Spec == Init /\ [][Next]_vars

-----------------------------------------------------------------------------
(* properties *)

Branches == {"_statistical_analysis", "_trend_analysis",
             "_anomaly_detection", "_default_analysis"}

\* value >= 0 and score, when present, in [0, 1]
ValidCalcInput(i) ==
    /\ i.value.c >= 0
    /\ i.score = None \/ (0 <= i.score[1] /\ i.score[1] <= 100)

NoBranchRan == \A k \in 1..Len(calls) : calls[k] \notin Branches

\* C1: an input whose value is < 0, or whose score is present and outside
\* [0, 1], makes calculate fail for every analysis kind, before any analysis
\* branch has run; no metrics are produced.
C1_InvalidInputFailsBeforeBranch ==
    (op = "calculate" /\ ~ValidCalcInput(input))
        => /\ outcome.tag = "raise"
           /\ NoBranchRan

\* a score outside [0, 1] with a value that is fine was refused
C1_Witness ==
    /\ op = "calculate"
    /\ input.value.c >= 0
    /\ input.score = Some(150)
    /\ input.analysis_type = Some("anomaly")
    /\ outcome.tag = "raise"
    /\ calls = <<"validate_input">>

\* C2: every failure of calculate reaches the caller as a CalculatorException
\* whose details hold the analysis kind that was attempted.
C2_FailureIsCalculatorError ==
    (op = "calculate" /\ outcome.tag = "raise")
        => /\ outcome.error.kind = "CalculatorException"
           /\ "analysis_type" \in DOMAIN outcome.error.details
           /\ outcome.error.details.analysis_type = input.analysis_type

\* a failure raised inside an analysis branch (the variance overflows) was
\* wrapped
C2_Witness ==
    /\ op = "calculate"
    /\ calls = <<"validate_input", "_statistical_analysis">>
    /\ outcome.tag = "raise"
    /\ outcome.error.kind = "CalculatorException"
    /\ Contains(outcome.error.message, <<"(34, 'Numerical result out of range')">>)

\* C3: when execute returns a Failure, analyze_data answers with the status
\* of the kind of error behind it: 400 for a ValidationException, 404 for a
\* NotFoundException.
C3_StatusFollowsErrorKind ==
    (op = "analyze_data" /\ ~result.success)
        => /\ result.kind = "ValidationException"
                => outcome.status_code = HTTP_400_BAD_REQUEST
           /\ result.kind = "NotFoundException"
                => outcome.status_code = HTTP_404_NOT_FOUND

\* C4: on a Failure the error body holds the failure's message and its
\* detail map; on a Success the payload is returned unchanged with status 200.
C4_BodyCarriesMessageAndDetails ==
    op = "analyze_data"
        => IF result.success
           THEN /\ outcome.status_code = HTTP_200_OK
                /\ outcome.content = result.data
           ELSE /\ \E f \in DOMAIN outcome.content :
                       outcome.content[f] = result.error
                /\ "details" \in DOMAIN outcome.content
                /\ outcome.content.details = result.details

\* C5: in provide, a NotFoundException raised inside the call reaches the
\* caller unchanged; any other exception reaches it as a ProviderException
\* whose message contains the original message and whose details hold the
\* data_id that was looked up.
C5_ProvideErrorPropagation ==
    (op = "provide" /\ input.fault # None)
        => LET e == input.fault[1]
           IN  IF e.kind = "NotFoundException"
               THEN outcome = Raise(e)
               ELSE /\ outcome.tag = "raise"
                    /\ outcome.error.kind = "ProviderException"
                    /\ Contains(outcome.error.message, e.message)
                    /\ "data_id" \in DOMAIN outcome.error.details
                    /\ outcome.error.details.data_id = input.input_data.data_id

\* a NotFoundException raised inside provide came out as it was
C5_Witness ==
    /\ op = "provide"
    /\ input.fault # None
    /\ input.fault[1].kind = "NotFoundException"
    /\ outcome.tag = "raise"
    /\ outcome.error = input.fault[1]

\* C6: provide refuses an input whose data_id is not positive with a
\* ValidationException and returns no output.
C6_InvalidIdentifierRejected ==
    (op = "provide" /\ input.input_data.data_id <= 0)
        => /\ outcome.tag = "raise"
           /\ outcome.error.kind = "ValidationException"

AnomalyFlagged(out) ==
    /\ out.metrics.is_anomaly = Num(1000000, 0)
    /\ out.metrics.anomaly_score = Num(200000, 0)
    /\ \E k \in 1..Len(out.insights) : out.insights[k].text = "anomaly detected"

AnomalyNormal(out) ==
    /\ out.metrics.is_anomaly = Num(0, 0)
    /\ out.metrics.anomaly_score = Num(800000, 0)
    /\ \E k \in 1..Len(out.insights) :
            out.insights[k].text = "data within normal range"

\* C7: for a valid input of kind anomaly, calculate flags the input exactly
\* when score is present and below 0.3, and otherwise reports it as normal;
\* confidence is 0.85 either way.
C7_AnomalyFollowsCutoff ==
    (op = "calculate" /\ ValidCalcInput(input)
        /\ input.analysis_type = Some("anomaly"))
        => /\ outcome.tag = "return"
           /\ outcome.value.metrics.confidence = Num(850000, 0)
           /\ IF input.score # None /\ input.score[1] < AnomalyCutoff
              THEN AnomalyFlagged(outcome.value)
              ELSE AnomalyNormal(outcome.value)

\* threshold and score are both present and score > threshold
ThresholdExceeded(i) ==
    /\ i.threshold # None
    /\ i.score # None
    /\ i.score[1] > i.threshold[1]

ThresholdInsight(i) ==
    [text |-> "score({score:.2f}) exceeds threshold({threshold:.2f})",
     args |-> <<Fmt2(i.score[1]), Fmt2(i.threshold[1])>>]

\* C8: for a valid input of kind statistical with threshold and score both
\* present and score > threshold, calculate returns exactly 3 insights, the
\* third being the threshold comparison naming the score and the threshold.
\* (Stated for the values whose variance stays in the float range, where
\* the statistical branch returns.)
C8_ThresholdInsightAppended ==
    (op = "calculate" /\ ValidCalcInput(input)
        /\ input.analysis_type = Some("statistical")
        /\ ~SquareOverflows(input.value)
        /\ ThresholdExceeded(input))
        => /\ outcome.tag = "return"
           /\ Len(outcome.value.insights) = 3
           /\ outcome.value.insights[3] = ThresholdInsight(input)

\* the insights of a returned output are the 2 base insights, followed by
\* the threshold comparison only if threshold and score are present and
\* score > threshold
InsightsOnlyIfExceeded ==
    LET ins == outcome.value.insights
    IN  /\ Len(ins) \in {2, 3}
        /\ ins[1].text = "data follows a normal distribution"
        /\ ins[2].text = "mean is {mean:.2f}"
        /\ Len(ins) = 3 => ThresholdExceeded(input) /\ ins[3] = ThresholdInsight(input)
        /\ ~ThresholdExceeded(input) => Len(ins) = 2

\* C9 as stated: for every valid input of kind statistical, calculate
\* returns insights, with the threshold comparison only if threshold and
\* score are present and score > threshold, and exactly the 2 base insights
\* in every other case.
C9_Original ==
    (op = "calculate" /\ ValidCalcInput(input)
        /\ input.analysis_type = Some("statistical"))
        => /\ outcome.tag = "return"
           /\ InsightsOnlyIfExceeded

\* C9 amended: the same for every valid input of kind statistical whose
\* variance (value * 0.1) ** 2 stays in the float range; for the other
\* valid inputs calculate fails and returns no insights.
C9_ThresholdInsightOnlyIfExceeded ==
    (op = "calculate" /\ ValidCalcInput(input)
        /\ input.analysis_type = Some("statistical"))
        => IF SquareOverflows(input.value)
           THEN outcome.tag = "raise"
           ELSE /\ outcome.tag = "return"
                /\ InsightsOnlyIfExceeded

\* score equal to the threshold: the 2 base insights only
C9_Witness ==
    /\ op = "calculate"
    /\ input.analysis_type = Some("statistical")
    /\ input.score = Some(50)
    /\ input.threshold = Some(50)
    /\ outcome.tag = "return"
    /\ Len(outcome.value.insights) = 2

\* C10: whenever calculate succeeds, whatever the analysis kind, the metrics
\* it returns are not empty.
C10_MetricsNonEmpty ==
    (op = "calculate" /\ outcome.tag = "return")
        => DOMAIN outcome.value.metrics # {}

\* an absent kind took the default branch and succeeded
C10_Witness ==
    /\ op = "calculate"
    /\ input.analysis_type = None
    /\ outcome.tag = "return"
    /\ calls = <<"validate_input", "_default_analysis", "validate_output">>
    /\ DOMAIN outcome.value.metrics = {"value", "score"}

\* the positions of the batch whose provide call fails
FailingPositions(batch) ==
    {k \in 1..Len(batch.data_ids) :
        provide(ProviderInput(batch.data_ids[k]), batch.faults[k]).tag = "raise"}

\* C11: when get_multiple succeeds, the output has the length of the input
\* list and its i-th element is the record resolved for the i-th identifier,
\* duplicates included.
C11_BatchPreservesOrder ==
    (op = "get_multiple" /\ outcome.tag = "return")
        => /\ Len(outcome.value) = Len(input.data_ids)
           /\ \A i \in 1..Len(input.data_ids) :
                /\ outcome.value[i].id = input.data_ids[i]
                /\ outcome.value[i]
                     = provide(ProviderInput(input.data_ids[i]), None).value

\* a batch that is out of order and repeats an id was resolved
C11_Witness ==
    /\ op = "get_multiple"
    /\ input.data_ids = <<2, 1, 2>>
    /\ outcome.tag = "return"
    /\ Len(outcome.value) = 3
    /\ outcome.value[1].id = 2
    /\ outcome.value[2].id = 1

\* C12: when provide fails for some identifier of the list, get_multiple
\* fails with the error of the first failing call, returns no sequence, and
\* calls provide for no identifier after that one.
C12_BatchFailsFast ==
    (op = "get_multiple" /\ FailingPositions(input) # {})
        => LET first == CHOOSE k \in FailingPositions(input) :
                            \A j \in FailingPositions(input) : k <= j
           IN  /\ outcome = provide(ProviderInput(input.data_ids[first]),
                                    input.faults[first])
               /\ outcome.tag = "raise"
               /\ Len(calls) = first
               /\ \A k \in 1..first : calls[k] = ProviderInput(input.data_ids[k])

\* the second of three calls failed, a later one would have failed too, and
\* the third was never made
C12_Witness ==
    /\ op = "get_multiple"
    /\ Len(input.data_ids) = 3
    /\ input.faults[1] = None
    /\ input.faults[2] # None
    /\ input.faults[3] # None
    /\ input.faults[3] # input.faults[2]
    /\ outcome.tag = "raise"
    /\ Len(calls) = 2

\* the texts of a JSON response body
BodyTexts(content) ==
    (IF "error" \in DOMAIN content THEN {content.error} ELSE {})
        \cup (IF "details" \in DOMAIN content
              THEN {content.details[f] : f \in DOMAIN content.details}
              ELSE {})

\* the body holds the type name or the message of exc: it is the rendering
\* of the traceback of exc, or one of its texts holds them
BodyNamesException(content, exc) ==
    \/ "traceback_of" \in DOMAIN content /\ content.traceback_of = exc
    \/ \E t \in BodyTexts(content) :
            Contains(t, <<exc.kind>>) \/ Contains(t, exc.message)

\* an exception that neither the taxonomy handler nor a handler of the
\* framework answers
Unexpected(exc) == exc.kind \notin TaxonomyKinds \cup {"HTTPException"}

\* C13: for an exception that escaped the Result contract and is no
\* taxonomy error, the outer handler always answers with status 500 and the
\* generic message; the body holds the exception's type name or message
\* only when DEBUG is on, and with DEBUG off it is the generic message
\* alone.
C13_NoLeakOutsideDebug ==
    (op = "handle_exception" /\ Unexpected(input.exc))
        => /\ calls = <<"general_exception_handler">>
           /\ outcome.status_code = HTTP_500_INTERNAL_SERVER_ERROR
           /\ "error" \in DOMAIN outcome.content
           /\ outcome.content.error = <<"Internal server error">>
           /\ BodyNamesException(outcome.content, input.exc) => input.settings.DEBUG
           /\ ~input.settings.DEBUG => DOMAIN outcome.content = {"error"}

====
